---- MODULE Spec2Model ----
(***************************************************************************)
(* PearTree native shell (src-tauri/src/lib.rs): the application menu, the *)
(* set_menu_item_enabled and pick_tree_file commands and the menu-event    *)
(* forwarder.                                                              *)
(***************************************************************************)
EXTENDS Integers, Sequences, FiniteSets, TLC

VARIABLES
    status,           \* "setup" | "running" | "aborted": where run() is
    pc,               \* index of the next step of the setup closure
    created,          \* ids of the menu items, predefined items and submenus built so far
    enabled,          \* ids of the created items whose enabled flag is true
    appMenu,          \* app.menu(): NoMenu, or the installed menu (its top-level submenus)
    handlerRegistered,\* whether on_menu_event's closure is installed
    activations,      \* history: the native activations handled, << [id, delivered] >>
    emitted,          \* the "menu-event" channel: payloads delivered, in order
    toggled,          \* history: whether set_menu_item_enabled was ever invoked
    setupError,       \* history: index of the setup step whose `?` returned Err, 0 if none
    fs,               \* the file system: path index -> file state
    picked,           \* history: the dialog result and file state of the last pick_tree_file call
    outcome,          \* the value the last pick_tree_file call returned
    readLog           \* history: the paths the last pick_tree_file call read

vars == << status, pc, created, enabled, appMenu, handlerRegistered,
           activations, emitted, toggled, setupError, fs, picked, outcome, readLog >>

menuVars == << status, pc, created, enabled, appMenu, handlerRegistered, setupError >>
eventVars == << activations, emitted >>
pickVars == << fs, picked, outcome, readLog >>

\* Bound on the number of native menu activations per behaviour.
MaxActivations == 2

(***************************************************************************)
(* The menu that the setup closure builds.                                 *)
(***************************************************************************)

\* MenuItem::with_id calls, in source order (every one is created enabled).
MenuItemIds ==
    << "open-file", "open-tree", "import-annot", "export-tree", "export-image",
       "select-all",
       "view-back", "view-forward", "view-drill", "view-climb", "view-home",
       "view-zoom-in", "view-zoom-out", "view-fit", "view-fit-labels", "view-info",
       "tree-rotate", "tree-rotate-all", "tree-order-up", "tree-order-down",
       "tree-reroot", "tree-midpoint", "tree-hide", "tree-show", "tree-paint",
       "tree-clear-colours",
       "show-help" >>

\* The items of each submenu, in order (separators left out); a predefined item
\* is named "predefined:<constructor>", its id being generated by the toolkit.
SubmenuItems(s) ==
    CASE s = "PearTree" -> << "predefined:about", "predefined:services", "predefined:hide",
                              "predefined:hide_others", "predefined:show_all",
                              "predefined:quit" >>
      [] s = "File"     -> << "open-file", "open-tree", "import-annot", "export-tree",
                              "export-image", "predefined:close_window" >>
      [] s = "Edit"     -> << "predefined:cut", "predefined:copy", "predefined:paste",
                              "select-all" >>
      [] s = "View"     -> << "view-back", "view-forward", "view-climb", "view-drill",
                              "view-home", "view-zoom-in", "view-zoom-out", "view-fit",
                              "view-fit-labels", "view-info" >>
      [] s = "Tree"     -> << "tree-rotate", "tree-rotate-all", "tree-order-up",
                              "tree-order-down", "tree-reroot", "tree-midpoint",
                              "tree-hide", "tree-show", "tree-paint",
                              "tree-clear-colours" >>
      [] s = "Window"   -> << "predefined:minimize", "predefined:maximize",
                              "predefined:fullscreen" >>
      [] s = "Help"     -> << "show-help" >>

\* Menu::with_items: the top-level submenus, in order.
TopLevel == << "PearTree", "File", "Edit", "View", "Tree", "Window", "Help" >>

Range(s) == { s[i] : i \in 1..Len(s) }

SubmenuIds == Range(TopLevel)

MenuItemIdSet == Range(MenuItemIds)

\* The ids directly under each submenu.
ItemsUnder == [ s \in SubmenuIds |-> Range(SubmenuItems(s)) ]

PredefinedOf(s) == ItemsUnder[s] \ MenuItemIdSet

PredefinedIds == UNION { PredefinedOf(s) : s \in SubmenuIds }

AllItemIds == MenuItemIdSet \cup PredefinedIds \cup SubmenuIds

\* MenuItemKind of an item.
KindOf(id) ==
    IF id \in MenuItemIdSet THEN "MenuItem"
    ELSE IF id \in SubmenuIds THEN "Submenu"
    ELSE "Predefined"

\* Faulty variant: view-info left out of the loops.
InitiallyDisabledNoInfo ==
    << "import-annot", "export-tree", "export-image",
       "view-back", "view-forward", "view-home",
       "tree-rotate", "tree-rotate-all", "tree-reroot", "tree-midpoint",
       "tree-hide", "tree-show", "tree-paint", "tree-clear-colours" >>

\* The three "initial disabled states" loops, in order.
InitiallyDisabled ==
    << "import-annot", "export-tree", "export-image",
       "view-back", "view-forward", "view-home", "view-info",
       "tree-rotate", "tree-rotate-all", "tree-reroot", "tree-midpoint",
       "tree-hide", "tree-show", "tree-paint", "tree-clear-colours" >>

NoMenu == << >>

(***************************************************************************)
(* The setup closure, one step per fallible call, in source order.         *)
(***************************************************************************)

ItemSteps(from, to) ==
    [ i \in 1..(to - from + 1) |-> [op |-> "item", id |-> MenuItemIds[from + i - 1]] ]

SubmenuStep(s) == << [op |-> "submenu", id |-> s] >>

DisableSteps ==
    [ i \in 1..Len(InitiallyDisabled) |-> [op |-> "set_enabled_false", id |-> InitiallyDisabled[i]] ]

SetupSteps ==
    SubmenuStep("PearTree")
    \o ItemSteps(1, 5)   \o SubmenuStep("File")
    \o ItemSteps(6, 6)   \o SubmenuStep("Edit")
    \o ItemSteps(7, 16)  \o SubmenuStep("View")
    \o ItemSteps(17, 26) \o SubmenuStep("Tree")
    \o SubmenuStep("Window")
    \o ItemSteps(27, 27) \o SubmenuStep("Help")
    \o << [op |-> "menu", id |-> "menu"], [op |-> "set_menu", id |-> "menu"] >>
    \o DisableSteps
    \o << [op |-> "on_menu_event", id |-> "menu-event"] >>

\* Every step but the handler registration ends in `?`.
Fallible(step) == step.op # "on_menu_event"

\* The items a step creates: MenuItem::with_id one, Submenu::with_items the
\* submenu and the predefined items written inline in its item list.
CreatedBy(step) ==
    CASE step.op = "item"    -> { step.id }
      [] step.op = "submenu" -> { step.id } \cup PredefinedOf(step.id)
      [] OTHER               -> {}

\* Faulty variant: the initial set_enabled(false) calls have no effect.
EnabledAfterNoDisable(en, step) == en \cup CreatedBy(step)

\* The enabled flags after a successful step: every item is created with
\* enabled = true; item.set_enabled(false) clears one flag.
EnabledAfter(en, step) ==
    IF step.op = "set_enabled_false" THEN en \ { step.id }
    ELSE en \cup CreatedBy(step)

\* app.set_menu(menu) installs the menu built from the top-level submenus.
MenuAfter(m, step) == IF step.op = "set_menu" THEN TopLevel ELSE m

HandlerAfter(h, step) == h \/ step.op = "on_menu_event"

\* Faulty variant: the error of a step is ignored and setup goes on.
OnSetupErrorIgnored(st) == st

\* What becomes of run() when a step's `?` returns Err: setup returns Err,
\* Builder::run returns Err and .expect panics.
OnSetupError(st) == "aborted"

SetupStep ==
    /\ status = "setup"
    /\ pc <= Len(SetupSteps)
    /\ created' = created \cup CreatedBy(SetupSteps[pc])
    /\ enabled' = EnabledAfter(enabled, SetupSteps[pc])
    /\ appMenu' = MenuAfter(appMenu, SetupSteps[pc])
    /\ handlerRegistered' = HandlerAfter(handlerRegistered, SetupSteps[pc])
    /\ pc' = pc + 1
    /\ UNCHANGED << status, setupError, eventVars, toggled, pickVars >>

SetupFail ==
    /\ status = "setup"
    /\ pc <= Len(SetupSteps)
    /\ Fallible(SetupSteps[pc])
    /\ setupError' = pc
    /\ status' = OnSetupError(status)
    /\ pc' = IF status' = "aborted" THEN pc ELSE pc + 1
    /\ UNCHANGED << created, enabled, appMenu, handlerRegistered, eventVars, toggled, pickVars >>

\* The closure returns Ok(()) and Builder::run enters the event loop.
SetupReturn ==
    /\ status = "setup"
    /\ pc = Len(SetupSteps) + 1
    /\ status' = "running"
    /\ UNCHANGED << pc, created, enabled, appMenu, handlerRegistered, setupError,
                    eventVars, toggled, pickVars >>

(***************************************************************************)
(* set_menu_item_enabled                                                   *)
(***************************************************************************)

\* The ids the menu holds: its submenus and their items.
MenuIds(m) == Range(m) \cup UNION { ItemsUnder[s] : s \in Range(m) }

\* menu.get(id): the item of the menu with that id (an Option, as a set of at
\* most one), a submenu or an item under one.
MenuGet(m, id) ==
    IF \E i \in 1..Len(m) : m[i] = id \/ id \in ItemsUnder[m[i]] THEN { id } ELSE {}

\* Faulty variant: every kind of item is taken for a plain menu item.
AsMenuItemAnyKind(item) == { item }

\* item.as_menuitem(): Some for a plain MenuItem only.
AsMenuItem(item) == IF KindOf(item) = "MenuItem" THEN { item } ELSE {}

\* mi.set_enabled(value); ok is whether the native call returned Ok.
SetEnabled(en, id, value, ok) ==
    IF ~ok THEN en
    ELSE IF value THEN en \cup { id } ELSE en \ { id }

\* Faulty variant: the flag is set without looking the id up in the menu.
set_menu_item_enabled_unchecked(m, en, id, value, ok) == SetEnabled(en, id, value, ok)

\* The command body: the enabled flags it leaves.  The Result of set_enabled
\* is discarded (`let _ =`).
set_menu_item_enabled(m, en, id, value, ok) ==
    IF m = NoMenu THEN en
    ELSE IF MenuGet(m, id) = {} THEN en
    ELSE IF AsMenuItem(id) = {} THEN en
    ELSE SetEnabled(en, id, value, ok)

\* The ids the presentation layer passes: plain items, a predefined item, a
\* submenu and an id of no item.
ToggleIds ==
    { "open-file", "open-tree", "select-all", "show-help",
      "import-annot", "export-tree", "export-image",
      "view-home", "view-back", "view-forward",
      "predefined:minimize", "Window", "no-such-item" }

Toggle(id, value, ok) ==
    /\ status = "running"
    /\ enabled' = set_menu_item_enabled(appMenu, enabled, id, value, ok)
    /\ toggled' = TRUE
    /\ UNCHANGED << status, pc, created, appMenu, handlerRegistered, setupError,
                    eventVars, pickVars >>

SetMenuItemEnabledCall ==
    \E id \in ToggleIds, value \in BOOLEAN, ok \in BOOLEAN : Toggle(id, value, ok)

(***************************************************************************)
(* The menu-event forwarder                                                *)
(***************************************************************************)

\* Faulty variant: a failed emit is sent again until it is delivered.
EmitUntilDelivered(ch, payload, ok) ==
    Append(ch, [event |-> "menu-event", payload |-> payload])

\* app.emit("menu-event", payload): ok is whether the emit returned Ok.
Emit(ch, payload, ok) ==
    IF ok THEN Append(ch, [event |-> "menu-event", payload |-> payload]) ELSE ch

\* Faulty variant: an id equal to the last one sent is not sent again.
on_menu_event_dedup(ch, id, ok) ==
    IF ch # << >> /\ ch[Len(ch)].payload = id THEN ch ELSE Emit(ch, id, ok)

\* The on_menu_event closure: emit the event's id, discard the Result (.ok()).
on_menu_event(ch, id, ok) == Emit(ch, id, ok)

\* The items whose activation is drawn.
ActivationIds == { "open-file", "view-home" }

MenuEvent(id, ok) ==
    /\ status = "running"
    /\ Len(activations) < MaxActivations
    /\ activations' = Append(activations, [id |-> id, delivered |-> ok /\ handlerRegistered])
    /\ emitted' = IF handlerRegistered THEN on_menu_event(emitted, id, ok) ELSE emitted
    /\ UNCHANGED << menuVars, toggled, pickVars >>

NativeActivation == \E id \in ActivationIds, ok \in BOOLEAN : MenuEvent(id, ok)

(***************************************************************************)
(* pick_tree_file.  Text is kept as its UTF-8 bytes: an OsStr or a file's  *)
(* content is a sequence of bytes, a String one that is valid UTF-8.       *)
(***************************************************************************)

Cont(b) == b \in 128..191

\* str::from_utf8's validity check.
RECURSIVE IsUtf8(_)
IsUtf8(b) ==
    IF b = << >> THEN TRUE
    ELSE LET h == Head(b)
             n == Len(b)
         IN  IF h < 128 THEN IsUtf8(Tail(b))
             ELSE IF h \in 194..223
               THEN n >= 2 /\ Cont(b[2]) /\ IsUtf8(SubSeq(b, 3, n))
             ELSE IF h \in 224..239
               THEN /\ n >= 3
                    /\ b[2] \in (IF h = 224 THEN 160..191
                                 ELSE IF h = 237 THEN 128..159 ELSE 128..191)
                    /\ Cont(b[3])
                    /\ IsUtf8(SubSeq(b, 4, n))
             ELSE IF h \in 240..244
               THEN /\ n >= 4
                    /\ b[2] \in (IF h = 240 THEN 144..191
                                 ELSE IF h = 244 THEN 128..143 ELSE 128..191)
                    /\ Cont(b[3]) /\ Cont(b[4])
                    /\ IsUtf8(SubSeq(b, 5, n))
             ELSE FALSE

\* Path components: "d", "a.nwk", "<C3 A9>.t" (e-acute), "<FF>.t" (not UTF-8), "..".
DirName == << 100 >>
PlainName == << 97, 46, 110, 119, 107 >>
AccentName == << 195, 169, 46, 116 >>
RawName == << 255, 46, 116 >>
DotDot == << 46, 46 >>

\* The paths the picker can return, each a sequence of components.
PathSet ==
    { << DirName, PlainName >>, << DirName, AccentName >>,
      << DirName, RawName >>, << DirName, DotDot >> }

\* What a file can hold: nothing, "(a);", a lone byte FF.
Contents == { << >>, << 40, 97, 41, 59 >>, << 255 >> }

Missing == [kind |-> "missing", bytes |-> << >>]

\* What the file system can hold at a path; a path ending in ".." names no
\* regular file.
FileStates(p) ==
    { Missing, [kind |-> "dir", bytes |-> << >>], [kind |-> "denied", bytes |-> << >>] }
    \cup (IF p[Len(p)] = DotDot THEN {}
          ELSE { [kind |-> "file", bytes |-> c] : c \in Contents })

\* blocking_pick_file(): None when the user cancels, else Some(FilePath), a
\* FilePath being a Path or a Url.
DialogNone == [some |-> FALSE]

FilePaths ==
    { [kind |-> "Path", scheme |-> "", path |-> p] : p \in PathSet }
    \cup { [kind |-> "Url", scheme |-> sc, path |-> << DirName, PlainName >>]
           : sc \in { "file", "content" } }

DialogResults ==
    { DialogNone } \cup { [some |-> TRUE, file_path |-> f] : f \in FilePaths }

\* Errors carry the message their Display prints.
InvalidPathUrl == [kind |-> "InvalidPathUrl", message |-> "URL is not a valid path"]

IoError(st) ==
    CASE st.kind = "missing" ->
           [kind |-> "NotFound", message |-> "No such file or directory (os error 2)"]
      [] st.kind = "dir" ->
           [kind |-> "IsADirectory", message |-> "Is a directory (os error 21)"]
      [] st.kind = "denied" ->
           [kind |-> "PermissionDenied", message |-> "Permission denied (os error 13)"]
      [] OTHER ->
           [kind |-> "InvalidData", message |-> "stream did not contain valid UTF-8"]

\* file_path.into_path(): a Path as it is, a Url through to_file_path.
IntoPath(f) ==
    IF f.kind = "Path" \/ f.scheme = "file"
    THEN [ok |-> TRUE, val |-> f.path]
    ELSE [ok |-> FALSE, err |-> InvalidPathUrl]

\* Path::file_name(): the last component unless it is "..".
FileName(p) ==
    IF p = << >> \/ p[Len(p)] = DotDot THEN {} ELSE { p[Len(p)] }

\* OsStr::to_str(): Some when the bytes are valid UTF-8.
ToStr(os) == IF IsUtf8(os) THEN { os } ELSE {}

\* "tree"
DefaultName == << 116, 114, 101, 101 >>

\* Faulty variant: the name of the parent directory is taken.
NameOfParent(p) ==
    IF Len(p) < 2 \/ ~IsUtf8(p[Len(p) - 1]) THEN DefaultName ELSE p[Len(p) - 1]

\* path.file_name().and_then(|n| n.to_str()).unwrap_or("tree").to_string()
NameOf(p) ==
    LET n == UNION { ToStr(x) : x \in FileName(p) }
    IN  IF n = {} THEN DefaultName ELSE CHOOSE x \in n : TRUE

\* std::fs::read_to_string on a file in state st.
ReadToString(st) ==
    IF st.kind = "file" /\ IsUtf8(st.bytes)
    THEN [ok |-> TRUE, val |-> st.bytes]
    ELSE [ok |-> FALSE, err |-> IoError(st)]

\* Faulty variant: the error is replaced by a fixed message.
MapErrGeneric(e) == "could not read the file"

\* .map_err(|e| e.to_string())
MapErrToString(e) == e.message

OkNone == [tag |-> "Ok", value |-> [some |-> FALSE]]
OkSome(v) == [tag |-> "Ok", value |-> [some |-> TRUE, json |-> v]]
Err(msg) == [tag |-> "Err", error |-> msg]

\* Faulty variant: a cancelled dialog is reported as an error.
OnCancelAsError == [ret |-> Err("no file selected"), reads |-> << >>]

\* The `None => Ok(None)` arm.
OnCancel == [ret |-> OkNone, reads |-> << >>]

\* The command body: the value returned and the paths read, for dialog
\* result r and file system f.
pick_tree_file(r, f) ==
    IF ~r.some THEN OnCancel
    ELSE LET path == IntoPath(r.file_path)
         IN  IF ~path.ok THEN [ret |-> Err(MapErrToString(path.err)), reads |-> << >>]
             ELSE LET name == NameOf(path.val)
                      content == ReadToString(f[path.val])
                  IN  IF ~content.ok
                      THEN [ret |-> Err(MapErrToString(content.err)),
                            reads |-> << path.val >>]
                      ELSE [ret |-> OkSome([name |-> name, content |-> content.val]),
                            reads |-> << path.val >>]

\* The state of the chosen file when the call is made (history).
ChosenFile(r, f) ==
    IF r.some /\ IntoPath(r.file_path).ok THEN f[IntoPath(r.file_path).val] ELSE Missing

PickTreeFile(r) ==
    /\ status = "running"
    /\ picked' = [called |-> TRUE, choice |-> r, file |-> ChosenFile(r, fs)]
    /\ outcome' = [called |-> TRUE, ret |-> pick_tree_file(r, fs).ret]
    /\ readLog' = pick_tree_file(r, fs).reads
    /\ UNCHANGED << menuVars, eventVars, toggled, fs >>

PickTreeFileCall == \E r \in DialogResults : PickTreeFile(r)

\* The environment creates, removes or rewrites a file.
FsChange ==
    /\ status = "running"
    /\ \E p \in PathSet : \E st \in FileStates(p) :
          /\ fs[p] # st
          /\ fs' = [fs EXCEPT ![p] = st]
    /\ UNCHANGED << menuVars, eventVars, toggled, picked, outcome, readLog >>

(***************************************************************************)
(* Specification of the menu subsystem                                     *)
(***************************************************************************)

NoPick == [ called |-> FALSE ]

InitMenu ==
    /\ status = "setup"
    /\ pc = 1
    /\ created = {}
    /\ enabled = {}
    /\ appMenu = NoMenu
    /\ handlerRegistered = FALSE
    /\ setupError = 0
    /\ activations = << >>
    /\ emitted = << >>
    /\ toggled = FALSE

Init ==
    /\ InitMenu
    /\ fs = [p \in PathSet |-> Missing]
    /\ picked = NoPick
    /\ outcome = NoPick
    /\ readLog = << >>

Next ==
    \/ SetupStep
    \/ SetupFail
    \/ SetupReturn
    \/ SetMenuItemEnabledCall
    \/ NativeActivation

Spec == Init /\ [][Next]_vars

\* The enabled-state update alone: startup, then set_menu_item_enabled calls.
NextToggle ==
    \/ SetupStep
    \/ SetupFail
    \/ SetupReturn
    \/ SetMenuItemEnabledCall

SpecToggle == Init /\ [][NextToggle]_vars

\* The file acquisition bridge: startup, then pick_tree_file calls against a
\* changing file system.
NextPick ==
    \/ SetupStep
    \/ SetupFail
    \/ SetupReturn
    \/ PickTreeFileCall
    \/ FsChange

SpecPick == Init /\ [][NextPick]_vars

(***************************************************************************)
(* The availability table of the specification (section 4.2).              *)
(***************************************************************************)

Contexts ==
    [ hasTree : BOOLEAN, hasSelection : BOOLEAN, canGoBack : BOOLEAN,
      canGoForward : BOOLEAN, hasHistoryRoot : BOOLEAN ]

AllFalse ==
    [ hasTree |-> FALSE, hasSelection |-> FALSE, canGoBack |-> FALSE,
      canGoForward |-> FALSE, hasHistoryRoot |-> FALSE ]

WindowIds == PredefinedOf("Window")

AlwaysEnabled == { "open-tree", "open-file", "select-all", "show-help" } \cup WindowIds

NeedTree ==
    { "import-annot", "export-tree", "export-image", "view-home", "view-info",
      "tree-rotate", "tree-rotate-all", "tree-reroot", "tree-midpoint",
      "tree-hide", "tree-show", "tree-paint", "tree-clear-colours" }

TableIds == AlwaysEnabled \cup NeedTree \cup { "view-back", "view-forward" }

Policy(ctx) ==
    AlwaysEnabled
    \cup (IF ctx.hasTree THEN NeedTree ELSE {})
    \cup (IF ctx.hasTree /\ ctx.canGoBack THEN { "view-back" } ELSE {})
    \cup (IF ctx.hasTree /\ ctx.canGoForward THEN { "view-forward" } ELSE {})

(***************************************************************************)
(* Claims                                                                  *)
(***************************************************************************)

\* C1 (as stated): in every state of the running application the enabled set,
\* on the commands of the availability table, is exactly Policy(Context) for
\* the Context the application is in.
C1_EnabledSetIsPolicy ==
    status = "running" => \E ctx \in Contexts : enabled \cap TableIds = Policy(ctx)

\* C1 (amended): when startup has completed and no set_menu_item_enabled call
\* has been made, the enabled set is Policy(all-false Context); from then on a
\* command's enabled flag changes only in a set_menu_item_enabled call that
\* names that command, and becomes the value passed.
C1_EnabledSetFollowsToggles ==
    /\ [](status = "running" /\ ~toggled => enabled \cap TableIds = Policy(AllFalse))
    /\ [][status = "running" =>
            \A id \in AllItemIds :
                ((id \in enabled) # (id \in enabled')) =>
                    \E value \in BOOLEAN :
                        /\ Toggle(id, value, TRUE)
                        /\ (id \in enabled') = value]_vars

\* C1 witness: after the four calls a hasTree = true update makes, import-annot,
\* export-tree, export-image and view-home are enabled, view-back and
\* view-forward are not.
C1_Witness ==
    /\ status = "running"
    /\ toggled
    /\ { "import-annot", "export-tree", "export-image", "view-home" } \subseteq enabled
    /\ enabled \cap { "view-back", "view-forward" } = {}

\* C2 (as stated): the channel holds exactly one "menu-event" message per
\* native activation, in activation order, the payload being the item's id.
C2_OneMessagePerActivation ==
    emitted = [ i \in 1..Len(activations) |->
                  [event |-> "menu-event", payload |-> activations[i].id] ]

\* C2 (amended): every activation whose emit succeeds appends exactly one
\* message with the item's id to the channel, also when the same id was just
\* sent, and the channel holds as many messages as emits succeeded: all N, in
\* activation order, when none failed.
C2_OneMessagePerDeliveredActivation ==
    /\ [][\A id \in ActivationIds :
            MenuEvent(id, TRUE) =>
                emitted' = Append(emitted, [event |-> "menu-event", payload |-> id])]_vars
    /\ []((\A i \in 1..Len(activations) : activations[i].delivered) =>
            emitted = [ i \in 1..Len(activations) |->
                          [event |-> "menu-event", payload |-> activations[i].id] ])
    /\ [](Len(emitted) = Cardinality({ i \in 1..Len(activations) : activations[i].delivered }))

\* C2 witness: two activations of the same item gave two messages.
C2_Witness ==
    /\ Len(activations) = 2
    /\ activations[1].id = activations[2].id
    /\ Len(emitted) = 2
    /\ emitted[1] = emitted[2]

\* C3: when startup has completed and no set_menu_item_enabled call has been
\* made, the fifteen tree-dependent commands are disabled and open-tree,
\* open-file and select-all are enabled.
C3_StartupEnabledSet ==
    (status = "running" /\ ~toggled) =>
        /\ enabled \cap { "import-annot", "export-tree", "export-image",
                          "view-back", "view-forward", "view-home", "view-info",
                          "tree-rotate", "tree-rotate-all", "tree-reroot",
                          "tree-midpoint", "tree-hide", "tree-show", "tree-paint",
                          "tree-clear-colours" } = {}
        /\ { "open-tree", "open-file", "select-all" } \subseteq enabled

\* C3 witness: the application is running, every item exists, no toggle yet.
C3_Witness ==
    /\ status = "running"
    /\ ~toggled
    /\ created = AllItemIds
    /\ "view-info" \notin enabled

\* C4 (as stated): the always-enabled commands are enabled in every state of
\* the running application.
C4_AlwaysEnabled == status = "running" => AlwaysEnabled \subseteq enabled

\* C4 (amended): the always-enabled commands are enabled when startup
\* completes; the window commands stay enabled for ever; open-tree, open-file,
\* select-all and show-help stay enabled through every activation and every
\* call naming another item, and are disabled only by a
\* set_menu_item_enabled(id, false) call naming them.
C4_EnabledUntilToggledOff ==
    /\ [](status = "running" /\ ~toggled => AlwaysEnabled \subseteq enabled)
    /\ [](status = "running" => WindowIds \subseteq enabled)
    /\ [][status = "running" =>
            \A c \in AlwaysEnabled :
                (c \in enabled /\ c \notin enabled') =>
                    KindOf(c) = "MenuItem" /\ Toggle(c, FALSE, TRUE)]_vars

\* C4 witness: open-file has been disabled by a call, open-tree is still enabled.
C4_Witness ==
    /\ status = "running"
    /\ "open-file" \notin enabled
    /\ "open-tree" \in enabled
    /\ activations # << >>

\* What C5 says a call leaves: no flag changed when the id names no plain
\* menu item of the menu, else exactly the named flag set to the value.
C5_Post(id, value) ==
    /\ status' = "running"
    /\ IF appMenu = NoMenu \/ id \notin MenuIds(appMenu) \/ KindOf(id) # "MenuItem"
       THEN enabled' = enabled
       ELSE enabled' = (IF value THEN enabled \cup { id } ELSE enabled \ { id })

\* C5 (as stated): every set_menu_item_enabled(id, enabled) call leaves the
\* application running; it changes no flag when the id names no plain menu
\* item, and otherwise sets the named item's flag to `enabled` and no other.
C5_ToggleEffect ==
    [][\A id \in ToggleIds, value \in BOOLEAN, ok \in BOOLEAN :
          Toggle(id, value, ok) => C5_Post(id, value)]_vars

\* C5 (amended): as stated, except that when the native set_enabled call on
\* the named item returns an error the error is discarded and no flag changes.
C5_ToggleEffectUnlessNativeError ==
    [][\A id \in ToggleIds, value \in BOOLEAN :
          /\ Toggle(id, value, TRUE) => C5_Post(id, value)
          /\ Toggle(id, value, FALSE) => (status' = "running" /\ enabled' = enabled)]_vars

\* C5 witness: one call enabled import-annot and nothing else changed.
C5_Witness ==
    /\ status = "running"
    /\ toggled
    /\ enabled \cap Range(InitiallyDisabled) = { "import-annot" }
    /\ MenuItemIdSet \ Range(InitiallyDisabled) \subseteq enabled

C9_Delivered(a) == a.delivered

\* C9: the channel holds exactly the activations whose emit succeeded, in
\* activation order: a failed one is dropped and is never sent later, it
\* leaves the application running and every enabled flag as it was.
C9_DroppedNeverResent ==
    /\ [](LET sent == SelectSeq(activations, C9_Delivered)
          IN  emitted = [ i \in 1..Len(sent) |->
                            [event |-> "menu-event", payload |-> sent[i].id] ])
    /\ [][\A id \in ActivationIds :
            MenuEvent(id, FALSE) =>
                emitted' = emitted /\ status' = "running" /\ enabled' = enabled]_vars

\* C9 witness: the first activation was dropped, the second one delivered, and
\* the channel holds the second alone.
C9_Witness ==
    /\ status = "running"
    /\ Len(activations) = 2
    /\ ~activations[1].delivered
    /\ activations[2].delivered
    /\ activations[1].id # activations[2].id
    /\ emitted = << [event |-> "menu-event", payload |-> activations[2].id] >>

\* C10: once a step of the setup closure has failed, run() is aborted at that
\* step, the menu-event handler is not registered and nothing was or is
\* forwarded.
C10_SetupFailsFast ==
    setupError # 0 =>
        /\ status = "aborted"
        /\ pc = setupError
        /\ ~handlerRegistered
        /\ activations = << >>
        /\ emitted = << >>

\* C10 witness: applying an initial disabled state failed, after the menu was
\* installed.
C10_Witness ==
    /\ setupError # 0
    /\ SetupSteps[setupError].op = "set_enabled_false"
    /\ appMenu # NoMenu
    /\ status = "aborted"

\* The path the last call resolved (defined when a file was chosen).
C_ChosenPath == IntoPath(picked.choice.file_path)

\* C6: when the user cancels the picker the call returns Ok(None), neither a
\* loaded file nor an error, and reads no file.
C6_CancelReturnsNone ==
    (picked.called /\ ~picked.choice.some) =>
        /\ outcome.ret = OkNone
        /\ readLog = << >>

\* C6 witness: a cancelled call returned Ok(None) while a tree file existed.
C6_Witness ==
    /\ picked.called
    /\ ~picked.choice.some
    /\ outcome.ret = OkNone
    /\ \E p \in PathSet : fs[p].kind = "file"

\* C7 (as stated): for every chosen file that exists and is readable the call
\* returns Loaded{name, content}, name being the path's last component and
\* content the file's bytes.
C7_LoadedNameAndContent ==
    (picked.called /\ picked.choice.some /\ C_ChosenPath.ok /\ picked.file.kind = "file") =>
        outcome.ret = OkSome([ name |-> C_ChosenPath.val[Len(C_ChosenPath.val)],
                               content |-> picked.file.bytes ])

\* C7 (amended): for every chosen file that is read successfully, which needs
\* its content to be valid UTF-8, the call returns Loaded{name, content} with
\* content the file's text; name is the path's last component when that is
\* valid UTF-8 and the literal "tree" when it is not.
C7_LoadedNameOrDefault ==
    (/\ picked.called /\ picked.choice.some /\ C_ChosenPath.ok
     /\ picked.file.kind = "file" /\ IsUtf8(picked.file.bytes)) =>
        LET base == C_ChosenPath.val[Len(C_ChosenPath.val)]
        IN  outcome.ret = OkSome([ name |-> IF IsUtf8(base) THEN base ELSE DefaultName,
                                   content |-> picked.file.bytes ])

\* C7 witness: a file whose name is not UTF-8 was loaded under the name "tree".
C7_Witness ==
    /\ picked.called /\ picked.choice.some /\ C_ChosenPath.ok
    /\ C_ChosenPath.val[Len(C_ChosenPath.val)] = RawName
    /\ outcome.ret = OkSome([ name |-> DefaultName, content |-> << 40, 97, 41, 59 >> ])

\* C8: every call returns one of Ok(None), Ok(Some{name, content}) and
\* Err(reason) and leaves the application running; when the path cannot be
\* resolved or the file cannot be read it returns Err with the message of the
\* error that occurred.
C8_FailedCarriesMessage ==
    outcome.called =>
        /\ status = "running"
        /\ \/ outcome.ret = OkNone
           \/ /\ outcome.ret.tag = "Ok"
              /\ outcome.ret.value.some
              /\ DOMAIN outcome.ret.value.json = { "name", "content" }
           \/ /\ outcome.ret.tag = "Err"
              /\ DOMAIN outcome.ret = { "tag", "error" }
        /\ (picked.choice.some /\ ~C_ChosenPath.ok) =>
              outcome.ret = Err(InvalidPathUrl.message)
        /\ (/\ picked.choice.some /\ C_ChosenPath.ok
            /\ ~(picked.file.kind = "file" /\ IsUtf8(picked.file.bytes))) =>
              outcome.ret = Err(IoError(picked.file).message)

\* C8 witness: reading a file the user may not read returned the system's
\* message as the error.
C8_Witness ==
    /\ outcome.called
    /\ picked.choice.some
    /\ picked.file.kind = "denied"
    /\ C_ChosenPath.ok
    /\ outcome.ret = Err("Permission denied (os error 13)")
    /\ readLog # << >>

====
